---- MODULE Spec2Model ----
(***************************************************************************)
(* State-machine model of engine/thermal_sim/thermal_simulator.py          *)
(* (class ThermalSimulator).                                               *)
(*                                                                         *)
(* numpy arrays are records [shape, data] with data[i][j][k] the element at *)
(* the 0-based index (i, j, k).  Python's None is the record None.         *)
(* Temperatures and times                                                  *)
(* are float64 in the program; the model draws every configuration from    *)
(* integer values with density * specific_heat in {0, 1}, for which every  *)
(* float operation of the program is exact on integers, so the integer     *)
(* arithmetic below is the program's arithmetic on those inputs.  Means     *)
(* (np.mean) and cooling rates are kept as exact fractions [num, den].     *)
(***************************************************************************)
EXTENDS Integers, Sequences, FiniteSets, TLC

VARIABLES config, grid, temperature, time, history, results, calls, last

vars == <<config, grid, temperature, time, history, results, calls, last>>

(* ------------------------------ bounds --------------------------------- *)
\* successful simulate_step calls explored, one call at a time
MaxSteps == 2
\* successful simulate_step calls explored by run_simulation on a grid whose
\* temperatures rest
MaxRestSteps == 38

(* --------------------------- basic helpers ----------------------------- *)
None == [shape |-> <<>>, data |-> <<>>]

Min2(a, b) == IF a <= b THEN a ELSE b

SetMax(S) == CHOOSE x \in S : \A y \in S : y <= x

SetMin(S) == CHOOSE x \in S : \A y \in S : x <= y

Cells(shape) ==
  (0 .. shape[1] - 1) \X (0 .. shape[2] - 1) \X (0 .. shape[3] - 1)

\* a[i, j, k]
At(a, c) == a.data[c[1]][c[2]][c[3]]

\* the sum of a over the cells of S
RECURSIVE SetSum(_, _)
SetSum(a, S) ==
  IF S = {} THEN 0
  ELSE LET c == CHOOSE x \in S : TRUE IN At(a, c) + SetSum(a, S \ {c})

\* a after the assignments  a[c] = vals[c]  for the cells c of DOMAIN vals
RECURSIVE Assign(_, _)
Assign(a, vals) ==
  IF DOMAIN vals = {} THEN a
  ELSE LET c == CHOOSE x \in DOMAIN vals : TRUE
       IN Assign([a EXCEPT !.data[c[1]][c[2]][c[3]] = vals[c]],
                 [x \in DOMAIN vals \ {c} |-> vals[x]])

\* np.ones(shape) * v, np.zeros(shape)
full(shape, v) ==
  [shape |-> shape,
   data |-> [i \in 0 .. shape[1] - 1 |->
               [j \in 0 .. shape[2] - 1 |->
                  [k \in 0 .. shape[3] - 1 |-> v]]]]

\* np.max(a), np.min(a)
np_max(a) == SetMax({At(a, c) : c \in Cells(a.shape)})

np_min(a) == SetMin({At(a, c) : c \in Cells(a.shape)})

\* the cells selected by the mask  grid > 0
Material(g) == {c \in Cells(g.shape) : At(g, c) > 0}

\* np.mean(temperature[grid > 0]) as the exact fraction sum / count
np_mean_material(t, g) ==
  [num |-> SetSum(t, Material(g)), den |-> Cardinality(Material(g))]

Whole(x) == [num |-> x, den |-> 1]

(* ------------------------- exact fractions ----------------------------- *)
\* a / b of the program, for the operands the model draws (b divides a)
Quot(a, b) == a \div b

RatLeq(a, b) == a.num * b.den <= b.num * a.den

RatAdd(a, b) == [num |-> a.num * b.den + b.num * a.den, den |-> a.den * b.den]

RECURSIVE RatSum(_)
RatSum(q) == IF q = <<>> THEN Whole(0) ELSE RatAdd(Head(q), RatSum(Tail(q)))

\* max(cooling_rates)
RatMax(q) ==
  CHOOSE r \in {q[i] : i \in 1 .. Len(q)} : \A j \in 1 .. Len(q) : RatLeq(q[j], r)

\* np.mean(cooling_rates)
RatMean(q) == [num |-> RatSum(q).num, den |-> RatSum(q).den * Len(q)]

(* ------------------------------ inputs --------------------------------- *)
\* Every key the methods read is supplied, so no default of config.get is
\* used; "material" is flattened into the record.
\* A configuration the specification calls valid:
ValidConfig ==
  [resolution |-> 1, time_step |-> 1, ambient_temperature |-> 25,
   convection_coefficient |-> 1, extrusion_temperature |-> 200,
   thermal_conductivity |-> 1, specific_heat |-> 1, density |-> 1,
   cooling_rate_threshold |-> 5, max_temp_threshold |-> 150]

\* configurations with a non-positive material property or time step
ZeroDensityConfig == [ValidConfig EXCEPT !.density = 0]

NegativeStepConfig == [ValidConfig EXCEPT !.time_step = -1]

Configs == {ValidConfig, ZeroDensityConfig, NegativeStepConfig}

\* (dimensions, resolution) arguments of initialize_grid: grids 3x3x3 and
\* 12x12x3
InitArgs == { <<<<2, 2, 2>>, 1>>, <<<<22, 22, 5>>, 2>> }

\* layer footprints handed to add_layer: sets of occupied (x, y)
Footprints == { {<<6, 6>>}, {<<0, 0>>, <<6, 6>>} }

ZLevels == {-1, 0, 1, 3}

RunLengths == {0, 2, 37}

(* ------------------------- ThermalSimulator ---------------------------- *)
\* the simulator object: the fields a method reads and writes
Self == [grid |-> grid, temperature |-> temperature, time |-> time,
         history |-> history]

\* __init__
NewSimulator == [grid |-> None, temperature |-> None, time |-> 0, history |-> <<>>]

\* int(dimension / resolution) + 1: int() truncates, which for the positive
\* arguments drawn is the floor
GridSize(dimension, resolution) == (dimension \div resolution) + 1

GridShape(dimensions, resolution) ==
  << GridSize(dimensions[1], resolution), GridSize(dimensions[2], resolution),
     GridSize(dimensions[3], resolution) >>

\* initialize_grid: no check of an earlier initialization
\* the occupancy grid allocated with np.ones instead of np.zeros
initialize_grid_all_material(cfg, S, dimensions, resolution) ==
  LET shape == GridShape(dimensions, resolution)
  IN [self |-> [S EXCEPT !.temperature = full(shape, cfg.ambient_temperature),
                         !.grid = full(shape, 1)],
      err |-> "none"]

initialize_grid_result(cfg, S, dimensions, resolution) ==
  [err |-> "none",
   self |-> [S EXCEPT
     !.temperature = full(GridShape(dimensions, resolution), cfg.ambient_temperature),
     !.grid = full(GridShape(dimensions, resolution), 0)]]

\* the circular layer add_layer draws: the (i, j) with dist <= radius
Disc(shape) ==
  LET center_x == shape[1] \div 2
      center_y == shape[2] \div 2
      radius == Min2(center_x, center_y) - 5
  IN IF radius < 0 THEN {}
     ELSE {ij \in (0 .. shape[1] - 1) \X (0 .. shape[2] - 1) :
             (ij[1] - center_x) * (ij[1] - center_x)
               + (ij[2] - center_y) * (ij[2] - center_y) <= radius * radius}

\* numpy indexing of an axis of length n: negative indices count from the end
WrapIndex(z, n) == IF z < 0 THEN z + n ELSE z

IndexInBounds(z, n) == -n <= z /\ z < n

\* add_layer: layer_data is not read
add_layer_result(cfg, S, layer_data, z_level) ==
  IF S.grid = None THEN [err |-> "GridNotInitialized", self |-> S]
  ELSE
    LET shape == S.grid.shape
        zz == WrapIndex(z_level, shape[3])
        hit == {<<ij[1], ij[2], zz>> : ij \in Disc(shape)}
    IN IF hit # {} /\ ~IndexInBounds(z_level, shape[3])
       THEN [err |-> "IndexError", self |-> S]
       ELSE [err |-> "none",
             self |-> [S EXCEPT
               !.grid = Assign(S.grid, [c \in hit |-> 1]),
               !.temperature = Assign(S.temperature,
                                 [c \in hit |-> cfg.extrusion_temperature])]]

\* range(1, nx-1) x range(1, ny-1) x range(1, nz-1)
Interior(shape) ==
  (1 .. shape[1] - 2) \X (1 .. shape[2] - 2) \X (1 .. shape[3] - 2)

\* the six axis neighbours of a cell
Neighbours(c) ==
  { <<c[1] + 1, c[2], c[3]>>, <<c[1] - 1, c[2], c[3]>>,
    <<c[1], c[2] + 1, c[3]>>, <<c[1], c[2] - 1, c[3]>>,
    <<c[1], c[2], c[3] + 1>>, <<c[1], c[2], c[3] - 1>> }

\* the cells the loop of simulate_step updates
InteriorMaterial(g) == {c \in Interior(g.shape) : At(g, c) > 0}

laplacian(t, c) == SetSum(t, Neighbours(c)) - 6 * At(t, c)

\* an in-range neighbour is air
is_surface(g, c) ==
  \E n \in Neighbours(c) : n \in Cells(g.shape) /\ At(g, n) = 0

\* new_temp[i, j, k] after both += of the loop body, read from self.temperature
new_temp_at(cfg, S, c) ==
  LET alpha == Quot(cfg.thermal_conductivity, cfg.density * cfg.specific_heat)
      cooling == cfg.convection_coefficient
                   * (cfg.ambient_temperature - At(S.temperature, c))
  IN At(S.temperature, c)
       + alpha * cfg.time_step * laplacian(S.temperature, c)
       + (IF is_surface(S.grid, c)
          THEN Quot(cooling * cfg.time_step, cfg.density * cfg.specific_heat)
          ELSE 0)

\* the update written into the field it is reading: the first cell is updated
\* before the others are computed
new_temp_in_place(cfg, S) ==
  LET cells == InteriorMaterial(S.grid)
  IN IF cells = {}
     THEN S.temperature
     ELSE LET c0 == CHOOSE c \in cells : TRUE
              S1 == [S EXCEPT !.temperature =
                       Assign(S.temperature,
                              [c \in {c0} |-> new_temp_at(cfg, S, c)])]
          IN Assign(S1.temperature,
                    [c \in cells \ {c0} |-> new_temp_at(cfg, S1, c)])

new_temp(cfg, S) ==
  Assign(S.temperature,
         [c \in InteriorMaterial(S.grid) |-> new_temp_at(cfg, S, c)])

\* the sample simulate_step appends
Sample(cfg, S) ==
  [time |-> S.time,
   max_temp |-> np_max(S.temperature),
   min_temp |-> np_min(S.temperature),
   avg_temp |-> IF Material(S.grid) # {}
                THEN np_mean_material(S.temperature, S.grid)
                ELSE Whole(cfg.ambient_temperature)]

\* history after the  len(self.history) % 10 == 0  test of simulate_step
record_history(cfg, S) ==
  IF Len(S.history) % 10 = 0 THEN Append(S.history, Sample(cfg, S))
  ELSE S.history

\* simulate_step advancing the clock before it validates anything
simulate_step_clock_first(cfg, S) ==
  LET T == [S EXCEPT !.time = S.time + cfg.time_step]
  IN IF S.grid = None \/ S.temperature = None
     THEN [err |-> "GridNotInitialized", self |-> T]
     ELSE IF InteriorMaterial(S.grid) # {} /\ cfg.density * cfg.specific_heat = 0
     THEN [err |-> "ZeroDivisionError", self |-> T]
     ELSE LET S1 == [T EXCEPT !.temperature = new_temp(cfg, S)]
          IN [err |-> "none", self |-> [S1 EXCEPT !.history = record_history(cfg, S1)]]

\* simulate_step: the division by density * specific_heat raises inside the
\* loop, before self.temperature is assigned
simulate_step_result(cfg, S) ==
  IF S.grid = None \/ S.temperature = None
  THEN [err |-> "GridNotInitialized", self |-> S]
  ELSE IF InteriorMaterial(S.grid) # {} /\ cfg.density * cfg.specific_heat = 0
  THEN [err |-> "ZeroDivisionError", self |-> S]
  ELSE LET S1 == [S EXCEPT !.temperature = new_temp(cfg, S),
                           !.time = S.time + cfg.time_step]
       IN [err |-> "none", self |-> [S1 EXCEPT !.history = record_history(cfg, S1)]]

\* cooling_rates of analyze_results, from index i of the history on
RECURSIVE cooling_rates(_, _)
cooling_rates(h, i) ==
  IF i > Len(h) THEN <<>>
  ELSE LET time_diff == h[i].time - h[i - 1].time
           temp_diff == h[i - 1].max_temp - h[i].max_temp
       IN (IF time_diff > 0 THEN <<[num |-> temp_diff, den |-> time_diff]>> ELSE <<>>)
            \o cooling_rates(h, i + 1)

\* the dictionary analyze_results builds, without its "history" entry (that
\* entry is the list object self.history itself, see results_history) and
\* without the "message" text of an issue
Report(cfg, S) ==
  LET rates == cooling_rates(S.history, 2)
      max_cooling_rate == IF rates # <<>> THEN RatMax(rates) ELSE Whole(0)
      max_temp == np_max(S.temperature)
      cooling_issue ==
        IF max_cooling_rate.num > cfg.cooling_rate_threshold * max_cooling_rate.den
        THEN <<[type |-> "high_cooling_rate", value |-> max_cooling_rate,
                threshold |-> cfg.cooling_rate_threshold]>>
        ELSE <<>>
      temp_issue ==
        IF max_temp > cfg.max_temp_threshold
        THEN <<[type |-> "high_temperature", value |-> Whole(max_temp),
                threshold |-> cfg.max_temp_threshold]>>
        ELSE <<>>
  IN [simulation_time |-> S.time,
      num_steps |-> Len(S.history) * 10,
      final_max |-> np_max(S.temperature),
      final_min |-> np_min(S.temperature),
      final_avg |-> IF Material(S.grid) # {}
                    THEN np_mean_material(S.temperature, S.grid)
                    ELSE Whole(0),
      max_cooling_rate |-> max_cooling_rate,
      avg_cooling_rate |-> IF rates # <<>> THEN RatMean(rates) ELSE Whole(0),
      potential_issues |-> cooling_issue \o temp_issue]

\* analyze_results: <<report>> when it returns, <<>> when it raises
analyze_results_result(cfg, S) ==
  IF S.grid = None \/ S.temperature = None
  THEN [err |-> "NoSimulationData", results |-> <<>>]
  ELSE [err |-> "none", results |-> <<Report(cfg, S)>>]

\* for _ in range(num_steps): self.simulate_step() ; an exception ends the loop
RECURSIVE run_steps(_, _, _)
run_steps(cfg, S, num_steps) ==
  IF num_steps <= 0 THEN [err |-> "none", self |-> S, done |-> 0]
  ELSE LET r == simulate_step_result(cfg, S)
       IN IF r.err # "none" THEN [err |-> r.err, self |-> r.self, done |-> 0]
          ELSE LET rest == run_steps(cfg, r.self, num_steps - 1)
               IN [rest EXCEPT !.done = rest.done + 1]

\* run_simulation with a loop of one step too many
run_simulation_extra_step(cfg, S, num_steps) ==
  LET loop == run_steps(cfg, S, num_steps + 1)
      a == analyze_results_result(cfg, loop.self)
  IN IF loop.err # "none"
     THEN [err |-> loop.err, self |-> loop.self, done |-> loop.done, results |-> <<>>]
     ELSE [err |-> a.err, self |-> loop.self, done |-> loop.done, results |-> a.results]

\* run_simulation: the loop, then analyze_results on what the loop left
run_simulation_result(cfg, S, num_steps) ==
  LET loop == run_steps(cfg, S, num_steps)
      a == analyze_results_result(cfg, loop.self)
  IN IF loop.err # "none"
     THEN [err |-> loop.err, self |-> loop.self, done |-> loop.done, results |-> <<>>]
     ELSE [err |-> a.err, self |-> loop.self, done |-> loop.done, results |-> a.results]

(* ------------------------------ actions -------------------------------- *)
\* last: the most recent call, its arguments and how it ended;
\* results: <<the report the most recent call returned>>, <<>> when it
\*          returned none;
\* calls: successful simulate_step calls so far
NoCall ==
  [op |-> "__init__", err |-> "none", layer_data |-> {}, z_level |-> 0,
   num_steps |-> 0, dimensions |-> <<>>, resolution |-> 0]

\* the list the "history" entry of a returned report refers to
results_history == history

\* a simulate_step leaves every temperature as it is
Quiescent(g) == IF g = None THEN TRUE ELSE InteriorMaterial(g) = {}

\* the step calls a run of num_steps may bring the total to: a run longer
\* than MaxSteps is explored on a resting grid only
StepBudget(g, num_steps) ==
  IF num_steps > MaxSteps /\ Quiescent(g) THEN MaxRestSteps ELSE MaxSteps

Store(S) ==
  /\ grid' = S.grid
  /\ temperature' = S.temperature
  /\ time' = S.time
  /\ history' = S.history

Init ==
  /\ config \in Configs
  /\ grid = NewSimulator.grid
  /\ temperature = NewSimulator.temperature
  /\ time = NewSimulator.time
  /\ history = NewSimulator.history
  /\ results = <<>>
  /\ calls = 0
  /\ last = NoCall

initialize_grid ==
  \E a \in InitArgs :
    LET r == initialize_grid_result(config, Self, a[1], a[2])
    IN /\ Store(r.self)
       /\ last' = [NoCall EXCEPT !.op = "initialize_grid", !.err = r.err,
                                 !.dimensions = a[1], !.resolution = a[2]]
       /\ results' = <<>>
       /\ UNCHANGED <<config, calls>>

add_layer ==
  \E layer_data \in Footprints, z_level \in ZLevels :
    LET r == add_layer_result(config, Self, layer_data, z_level)
    IN /\ Store(r.self)
       /\ last' = [NoCall EXCEPT !.op = "add_layer", !.err = r.err,
                                 !.layer_data = layer_data, !.z_level = z_level]
       /\ results' = <<>>
       /\ UNCHANGED <<config, calls>>

simulate_step ==
  /\ calls < MaxSteps
  /\ LET r == simulate_step_result(config, Self)
     IN /\ Store(r.self)
        /\ last' = [NoCall EXCEPT !.op = "simulate_step", !.err = r.err]
        /\ calls' = IF r.err = "none" THEN calls + 1 ELSE calls
        /\ results' = <<>>
        /\ UNCHANGED config

analyze_results ==
  LET r == analyze_results_result(config, Self)
  IN /\ results' = r.results
     /\ last' = [NoCall EXCEPT !.op = "analyze_results", !.err = r.err]
     /\ UNCHANGED <<config, grid, temperature, time, history, calls>>

run_simulation ==
  \E num_steps \in RunLengths :
    /\ calls + num_steps <= StepBudget(grid, num_steps)
    /\ LET r == run_simulation_result(config, Self, num_steps)
       IN /\ Store(r.self)
          /\ results' = r.results
          /\ last' = [NoCall EXCEPT !.op = "run_simulation", !.err = r.err,
                                    !.num_steps = num_steps]
          /\ calls' = calls + r.done
          /\ UNCHANGED config

Next ==
  \/ initialize_grid
  \/ add_layer
  \/ simulate_step
  \/ analyze_results
  \/ run_simulation

Spec == Init /\ [][Next]_vars

(* ------------------------------- claims -------------------------------- *)
\* the simulator fields a call may change
fields == <<grid, temperature, time, history>>

\* a configuration the Configuration component of the specification accepts
ConfigValid(cfg) ==
  /\ cfg.resolution > 0
  /\ cfg.time_step > 0
  /\ cfg.thermal_conductivity > 0
  /\ cfg.specific_heat > 0
  /\ cfg.density > 0

\* C1: on an initialized simulator (of a valid configuration) the history
\* trace holds exactly floor(n / 10) samples, n the number of step calls made
\* so far.
C1_HistoryLength ==
  (ConfigValid(config) /\ grid # None) => Len(history) = calls \div 10

\* C2: the clock equals time_step times the number of successful step calls
\* made so far, and no call decreases it.
C2_ClockLaw == [][time' = config.time_step * calls' /\ time' >= time]_vars

C4_NoReinitialize ==
  [][(ConfigValid(config) /\ grid # None) =>
       /\ grid'.shape = grid.shape
       /\ last'.op = "initialize_grid" =>
            last'.err = "AlreadyInitialized" /\ UNCHANGED <<grid, temperature>>
    ]_vars

\* C5: (under a valid configuration) deposit_layer fails with
\* GridNotInitialized before initialization, and on an initialized grid fails
\* with an index error for every z_index outside [0, nz), leaving grid and
\* temperature as they were.
C5_DepositErrors ==
  [][(ConfigValid(config) /\ last'.op = "add_layer") =>
       /\ grid = None => last'.err = "GridNotInitialized"
       /\ (grid # None /\ last'.z_level \notin 0 .. grid.shape[3] - 1) =>
            last'.err = "IndexError" /\ UNCHANGED <<grid, temperature>>
    ]_vars

\* C6: after a successful deposit_layer(footprint, z_index) (under a valid
\* configuration) every cell (x, y, z_index) with (x, y) occupied in the
\* footprint is material and holds extrusion_temperature.
C6_DepositFollowsFootprint ==
  (ConfigValid(config) /\ last.op = "add_layer" /\ last.err = "none"
     /\ last.z_level \in 0 .. grid.shape[3] - 1) =>
    \A xy \in last.layer_data :
      <<xy[1], xy[2], last.z_level>> \in Cells(grid.shape) =>
        /\ At(grid, <<xy[1], xy[2], last.z_level>>) = 1
        /\ At(temperature, <<xy[1], xy[2], last.z_level>>)
             = config.extrusion_temperature

\* C7: under a configuration with a non-positive resolution, time step or
\* material property no initialize, deposit_layer or step call ever succeeds.
C7_InvalidConfigRejected ==
  (last.op \in {"initialize_grid", "add_layer", "simulate_step"}
     /\ last.err = "none") => ConfigValid(config)

FitsGrid(layer_data, shape) ==
  \E xy \in layer_data : xy[1] < shape[1] /\ xy[2] < shape[2]

\* C9: with a valid configuration of ambient_temperature < max_temp_threshold
\* < extrusion_temperature, analyze called right after one successful deposit
\* and before any step reports a high_temperature issue whose value is
\* extrusion_temperature and whose threshold is max_temp_threshold.
C9_HighTemperatureFlag ==
  [][(/\ ConfigValid(config)
      /\ last.op = "add_layer" /\ last.err = "none"
      /\ last.z_level \in 0 .. grid.shape[3] - 1
      /\ FitsGrid(last.layer_data, grid.shape)
      /\ calls = 0
      /\ config.ambient_temperature < config.max_temp_threshold
      /\ config.max_temp_threshold < config.extrusion_temperature
      /\ last'.op = "analyze_results") =>
       /\ results' # <<>>
       /\ \E n \in 1 .. Len(results'[1].potential_issues) :
            results'[1].potential_issues[n] =
              [type |-> "high_temperature",
               value |-> Whole(config.extrusion_temperature),
               threshold |-> config.max_temp_threshold]
    ]_vars

\* the temperatures of the material cells
MaterialTemps == {At(temperature, c) : c \in Material(grid)}

\* C10: the report (under a valid configuration) gives final_max, final_min
\* and final_avg as the maximum, minimum and mean of the temperature over the
\* material cells only.
C10_StatsOverMaterial ==
  (/\ ConfigValid(config)
   /\ last.op = "analyze_results" /\ last.err = "none"
   /\ Material(grid) # {}) =>
    /\ results[1].final_max = SetMax(MaterialTemps)
    /\ results[1].final_min = SetMin(MaterialTemps)
    /\ results[1].final_avg = np_mean_material(temperature, grid)

\* C11: a report returned by analyze (under a valid configuration) is an
\* immutable value: the call that follows leaves its history entry exactly the
\* trace as it was when the report was returned.
C11_ReportImmutable ==
  [][(ConfigValid(config) /\ results # <<>>) =>
       results_history' = results_history]_vars

\* a material cell with at least one void axis neighbour
SurfaceCells(g) == {c \in Material(g) : is_surface(g, c)}

\* C12: with a valid configuration of ambient_temperature <
\* extrusion_temperature and convection_coefficient > 0, a step that follows a
\* step (no deposit_layer in between) leaves no surface cell warmer than it
\* was.
C12_CoolingMonotone ==
  [][(/\ ConfigValid(config)
      /\ config.ambient_temperature < config.extrusion_temperature
      /\ config.convection_coefficient > 0
      /\ last.op = "simulate_step" /\ last.err = "none"
      /\ last'.op = "simulate_step" /\ last'.err = "none") =>
       \A c \in SurfaceCells(grid) : At(temperature', c) <= At(temperature, c)
    ]_vars

\* the six axis neighbours of a cell, written out
SixNeighbours(c) ==
  { <<c[1] + 1, c[2], c[3]>>, <<c[1] - 1, c[2], c[3]>>,
    <<c[1], c[2] + 1, c[3]>>, <<c[1], c[2] - 1, c[3]>>,
    <<c[1], c[2], c[3] + 1>>, <<c[1], c[2], c[3] - 1>> }

\* a cell on the outermost index (0 or n-1) of some axis
Outermost(shape) ==
  {c \in Cells(shape) : \E a \in 1..3 : c[a] = 0 \/ c[a] = shape[a] - 1}

\* the step equation of one interior material cell, cleared of the division
\* by density * specific_heat: rho*c*(T'(c) - T(c)) =
\* k*dt*(sum of the six neighbours - 6*T(c)) + [void neighbour] h*(amb - T(c))*dt
StepEquation(cfg, g, T, Tn, c) ==
  cfg.density * cfg.specific_heat * (At(Tn, c) - At(T, c))
    = cfg.thermal_conductivity * cfg.time_step
        * (SetSum(T, SixNeighbours(c)) - 6 * At(T, c))
      + (IF \E n \in SixNeighbours(c) : At(g, n) = 0
         THEN cfg.convection_coefficient
                * (cfg.ambient_temperature - At(T, c)) * cfg.time_step
         ELSE 0)

\* C13: one successful step maps the field T to T' where every interior
\* material cell obeys the step equation with every term read from T, every
\* void cell and every outermost cell keeps its temperature, and the occupancy
\* grid is unchanged.
C13_StepEquation ==
  [][(last'.op = "simulate_step" /\ last'.err = "none") =>
       /\ grid' = grid
       /\ \A c \in Cells(grid.shape) :
            IF c \notin Outermost(grid.shape) /\ At(grid, c) > 0
            THEN StepEquation(config, grid, temperature, temperature', c)
            ELSE At(temperature', c) = At(temperature, c)]_vars

\* a step has just updated a field holding both a surface cell and a material
\* cell without any void neighbour
C13_Witness ==
  /\ last.op = "simulate_step" /\ last.err = "none"
  /\ ConfigValid(config)
  /\ \E c \in InteriorMaterial(grid) : is_surface(grid, c)
  /\ \E c \in InteriorMaterial(grid) : ~is_surface(grid, c)
  /\ \E c \in InteriorMaterial(grid) :
       At(temperature, c) # config.extrusion_temperature

\* every outermost cell is void and at ambient temperature
BoundaryClean(cfg, g, t) ==
  \A c \in Outermost(g.shape) :
    At(g, c) = 0 /\ At(t, c) = cfg.ambient_temperature

\* C14 as stated: in every state reached by initialize, deposit_layer with
\* z_index in [0, nz) and step, every outermost cell is void and holds
\* ambient_temperature; stated as the step of the induction: such a call keeps
\* the boundary clean.
C14_BoundaryVoidAmbient ==
  [][(/\ ConfigValid(config)
      /\ grid' # None
      /\ last'.op \in {"initialize_grid", "add_layer", "simulate_step"}
      /\ (IF grid = None THEN TRUE
          ELSE /\ BoundaryClean(config, grid, temperature)
               /\ last'.op = "add_layer" =>
                    last'.z_level \in 0..(grid.shape[3] - 1))) =>
       BoundaryClean(config, grid', temperature')]_vars

\* C14 amended: initialize leaves every outermost cell void and at
\* ambient_temperature, and no step (alone or inside run) changes the occupancy
\* or the temperature of an outermost cell.
C14_BoundaryFixedBySteps ==
  [][/\ (last'.op = "initialize_grid" /\ last'.err = "none") =>
          BoundaryClean(config, grid', temperature')
     /\ (last'.op \in {"simulate_step", "run_simulation"}
           /\ last'.err = "none") =>
          \A c \in Outermost(grid.shape) :
            /\ At(grid', c) = At(grid, c)
            /\ At(temperature', c) = At(temperature, c)]_vars

\* a step has just run on a field with hot material in an outermost layer next
\* to interior material
C14_Witness ==
  /\ last.op = "simulate_step" /\ last.err = "none"
  /\ ConfigValid(config)
  /\ InteriorMaterial(grid) # {}
  /\ \E c \in Outermost(grid.shape) :
       At(grid, c) > 0 /\ At(temperature, c) = config.extrusion_temperature

\* C15: a successful deposit_layer(footprint, z_index) changes occupancy and
\* temperature only in cells of z-level z_index: every cell (x, y, z) with
\* z # z_index keeps both, and the clock and the history are unchanged.
C15_DepositFrame ==
  [][(ConfigValid(config) /\ last'.op = "add_layer" /\ last'.err = "none") =>
       /\ time' = time
       /\ history' = history
       /\ \A c \in Cells(grid.shape) :
            c[3] # last'.z_level =>
              /\ At(grid', c) = At(grid, c)
              /\ At(temperature', c) = At(temperature, c)]_vars

\* C16: every report returned by analyze or run (under a valid configuration)
\* has num_steps equal to the number of steps made so far, and therefore
\* simulation_time = num_steps * time_step.
C16_NumStepsIsStepCount ==
  (ConfigValid(config) /\ results # <<>>) =>
    /\ results[1].num_steps = calls
    /\ results[1].simulation_time = results[1].num_steps * config.time_step

====
